---- MODULE Spec2Model ----
(***************************************************************************)
(* Task-Management-API: the credential and resource-authorization core.   *)
(* The store (users, tasks), the bearer tokens in circulation, the        *)
(* registrations in flight and the last HTTP response are the state; one  *)
(* action per request handler of app/api/v1.                              *)
(***************************************************************************)
EXTENDS Integers, Sequences, FiniteSets, Bags, TLC

\* issued is history: the pairs <<token, users.id>> of the logins answered so
\* far; no handler reads it
\* updates holds the update_task requests suspended at their commit, each with
\* the row its session loaded and the row its session holds
VARIABLES users, nextUserId, tasks, nextTaskId, tokens, issued, regs, updates, now, last

vars == <<users, nextUserId, tasks, nextTaskId, tokens, issued, regs, updates, now, last>>

(* ------------------------------ bounds -------------------------------- *)
\* values the users.id sequence may hand out
MaxUserId == 2
\* values the tasks.id sequence may hand out
MaxTaskId == 2
\* register requests that may be in flight at once
MaxInflight == 2
\* last instant of the wall clock
MaxClock == 2

(* --------------------------- python values ---------------------------- *)
\* None / SQL NULL of a string, enum or boolean field
None == "None"
\* None where a str is expected: text is a sequence of characters, and this
\* one-element sequence is no text, its element being no character
NoneStr == <<None>>
\* NULL of a timestamp column
NullTime == 0

(* ----------------------------- characters ----------------------------- *)
LowerAlphabet ==
    <<"a", "b", "c", "d", "e", "f", "g", "h", "i", "j", "k", "l", "m", "n",
    "o", "p", "q", "r", "s", "t", "u", "v", "w", "x", "y", "z">>
UpperAlphabet ==
    <<"A", "B", "C", "D", "E", "F", "G", "H", "I", "J", "K", "L", "M", "N",
    "O", "P", "Q", "R", "S", "T", "U", "V", "W", "X", "Y", "Z">>

LowerLetters == {LowerAlphabet[i] : i \in DOMAIN LowerAlphabet}
UpperLetters == {UpperAlphabet[i] : i \in DOMAIN UpperAlphabet}
Digits == {"0", "1", "2", "3", "4", "5", "6", "7", "8", "9"}

\* the characters of the class [!@#$%^&*(),.?":{}|<>]
PasswordSymbols ==
    {"!", "@", "#", "$", "%", "^", "&", "*", "(", ")", ",", ".", "?", "\"", ":", "{", "}",
     "|", "<", ">"}

\* str.lower() on one character
LowerChar(c) ==
    IF c \in UpperLetters
    THEN LowerAlphabet[CHOOSE i \in DOMAIN UpperAlphabet : UpperAlphabet[i] = c]
    ELSE c

\* str.lower()
Lower(s) == [i \in 1..Len(s) |-> LowerChar(s[i])]

\* re.match(r'^[a-zA-Z][a-zA-Z0-9_]*$', v)
UsernamePattern(v) ==
    /\ Len(v) >= 1
    /\ v[1] \in LowerLetters \cup UpperLetters
    /\ \A i \in 2..Len(v) : v[i] \in LowerLetters \cup UpperLetters \cup Digits \cup {"_"}

UsernameMinLength == 3
UsernameMaxLength == 50

\* Field(min_length=3, max_length=50)
UsernameLengthOk(v) == Len(v) >= UsernameMinLength /\ Len(v) <= UsernameMaxLength

inappropriate_words == {<<"a", "d", "m", "i", "n">>, <<"r", "o", "o", "t">>,
                        <<"s", "y", "s", "t", "e", "m">>}

UserBase_validate_username_NoLower(v) ==
    IF ~UsernameLengthOk(v) THEN {}
    ELSE IF ~UsernamePattern(v) THEN {}
    ELSE IF Lower(v) \in inappropriate_words THEN {}
    ELSE {v}

\* UserBase.validate_username: the set holding the normalized username, or {}
\* when the validator raises ValueError
UserBase_validate_username(v) ==
    IF ~UsernameLengthOk(v) THEN {}
    ELSE IF ~UsernamePattern(v) THEN {}
    ELSE IF Lower(v) \in inappropriate_words THEN {}
    ELSE {Lower(v)}

\* UserUpdate.validate_username (v is not None)
UserUpdate_validate_username(v) ==
    IF ~UsernameLengthOk(v) THEN {}
    ELSE IF ~UsernamePattern(v) THEN {}
    ELSE {Lower(v)}

PasswordMinLength == 8
PasswordMaxLength == 100

\* Field(min_length=8, max_length=100)
PasswordLengthOk(v) == Len(v) >= PasswordMinLength /\ Len(v) <= PasswordMaxLength

\* re.search(r'[A-Z]', v), r'[a-z]', r'\d' and r'[!@#$%^&*(),.?":{}|<>]'
HasCharOf(v, class) == \E i \in DOMAIN v : v[i] \in class

weak_passwords ==
    {<<"p", "a", "s", "s", "w", "o", "r", "d", "1", "2", "3">>,
     <<"1", "2", "3", "4", "5", "6", "7", "8">>,
     <<"q", "w", "e", "r", "t", "y", "1", "2", "3">>}

\* UserCreate.validate_password behind the length constraints of the field:
\* {} when one raises
UserCreate_validate_password(v) ==
    IF ~PasswordLengthOk(v) THEN {}
    ELSE IF ~HasCharOf(v, UpperLetters) THEN {}
    ELSE IF ~HasCharOf(v, LowerLetters) THEN {}
    ELSE IF ~HasCharOf(v, Digits) THEN {}
    ELSE IF ~HasCharOf(v, PasswordSymbols) THEN {}
    ELSE IF Lower(v) \in weak_passwords THEN {}
    ELSE {v}

UserUpdate_validate_password_NoSymbolCheck(v) ==
    IF v = NoneStr THEN {v}
    ELSE IF ~PasswordLengthOk(v) THEN {}
    ELSE IF ~HasCharOf(v, UpperLetters) THEN {}
    ELSE IF ~HasCharOf(v, LowerLetters) THEN {}
    ELSE IF ~HasCharOf(v, Digits) THEN {}
    ELSE {v}

\* UserUpdate.validate_password behind the length constraints of the field
UserUpdate_validate_password(v) ==
    IF v = NoneStr THEN {v}
    ELSE IF ~PasswordLengthOk(v) THEN {}
    ELSE IF ~HasCharOf(v, UpperLetters) THEN {}
    ELSE IF ~HasCharOf(v, LowerLetters) THEN {}
    ELSE IF ~HasCharOf(v, Digits) THEN {}
    ELSE IF ~HasCharOf(v, PasswordSymbols) THEN {}
    ELSE {v}

(* ------------------------------ inputs -------------------------------- *)
bob == <<"b", "o", "b">>
Bob == <<"B", "o", "b">>
BOB == <<"B", "O", "B">>
b_2 == <<"b", "_", "2">>
admin == <<"a", "d", "m", "i", "n">>
Admin == <<"A", "d", "m", "i", "n">>

\* usernames a login form may carry
LoginUsernames == {bob, Bob, BOB, b_2, admin}

\* e-mail addresses (already EmailStr-valid); the two differ in letter case only
Emails == {"bob@x.io", "Bob@x.io"}

\* two passwords of the Credential Policy
Secur3pass == <<"S", "e", "c", "u", "r", "3", "!", "p", "a", "s", "s">>
Oth3rpass == <<"O", "t", "h", "3", "r", "?", "p", "a", "s", "s">>
Passwords == {Secur3pass, Oth3rpass}

(* ------------------------- app/core/security -------------------------- *)
\* get_password_hash: one-way and injective on the passwords of the model
get_password_hash(password) == <<"hash", password>>

\* get_password_hash raises on a secret that is no string
get_password_hash_raises(password) == password = NoneStr

\* verify_password
verify_password(password, hashed) == hashed = get_password_hash(password)

\* create_access_token(data={"sub": username})
create_access_token(sub) == [sub |-> sub, valid |-> TRUE]

\* decode_access_token: the subject of a token that verifies, else None ({})
decode_access_token(token) == IF token.valid THEN {token.sub} ELSE {}

\* a token whose signature does not verify or whose expiry has passed
BadToken == [sub |-> bob, valid |-> FALSE]

\* the bearer tokens a request may carry
RequestTokens == tokens \cup {BadToken}

(* ------------------------------ the store ----------------------------- *)
\* select(User).where(User.username == username)
UsersByUsername(username) == {u \in users : u.username = username}

\* select(User).where(User.email == email)
UsersByEmail(email) == {u \in users : u.email = email}

\* the unique indexes of the users table on username and on email
UsersUnique(us) ==
    \A u, w \in us : u.id # w.id => u.username # w.username /\ u.email # w.email

\* the rows of tasks left when the account uid is deleted (delete cascade)
TasksAfterUserDelete(uid) == {t \in tasks : t.owner_id # uid}

(* ------------------------ app/dependencies.py ------------------------- *)
\* get_current_user: the account the token resolves to, {} when it raises
\* UnauthorizedException
get_current_user(token) ==
    LET username == decode_access_token(token) IN
    IF username = {} THEN {}
    ELSE UNION {UsersByUsername(n) : n \in username}

get_current_active_user_NoActiveCheck(token) == get_current_user(token)

\* get_current_active_user
get_current_active_user(token) ==
    {u \in get_current_user(token) : u.is_active}

(* ----------------------------- responses ------------------------------ *)
OK == "OK"
BadRequest == "BadRequest"
Unauthorized == "Unauthorized"
Forbidden == "Forbidden"
NotFound == "NotFound"
ServerFault == "ServerFault"

\* no response yet: the handler is suspended at an await
Pending == "Pending"

\* the step just taken: the request (op, req), for register the await it ran
\* up to (stage), who the request was authenticated as (0: nobody), and the
\* response: its error class, detail message and body
Step(op, stage, req, caller, outcome, detail, body) ==
    last' = [op |-> op, stage |-> stage, req |-> req, caller |-> caller,
             outcome |-> outcome, detail |-> detail, body |-> body]

RespondWith(op, req, caller, outcome, detail, body) ==
    Step(op, "", req, caller, outcome, detail, body)

\* a response without a body the model reads
Respond(op, req, caller, outcome, detail) ==
    RespondWith(op, req, caller, outcome, detail, << >>)

\* the response of a protected operation whose Authentication Gate raised
RespondUnauthorized(op, req) ==
    Respond(op, req, 0, Unauthorized, "Not authenticated")

\* a step of the environment, which answers no request
EnvStep(op) == Step(op, "", << >>, 0, OK, "", << >>)

Init ==
    /\ users = {}
    /\ nextUserId = 1
    /\ tasks = {}
    /\ nextTaskId = 1
    /\ tokens = {}
    /\ issued = {}
    /\ regs = EmptyBag
    /\ updates = {}
    /\ now = 1
    /\ last = [op |-> "none", stage |-> "", req |-> << >>, caller |-> 0,
               outcome |-> OK, detail |-> "", body |-> << >>]

(* ------------------------ app/api/v1/auth.py -------------------------- *)
\* the body of POST /auth/register after UserCreate's validators: {} when one
\* raises
UserCreate_validate(body) ==
    IF UserCreate_validate_password(body.password) = {} THEN {}
    ELSE {[body EXCEPT !.username = n] : n \in UserBase_validate_username(body.username)}

\* register, lines 31-35: db.add(user); commit. The INSERT is refused by a
\* unique index of users, and the exception surfaces as a server fault
RegisterInsert(stage, user_data) ==
    LET user == [id |-> nextUserId, email |-> user_data.email,
                 username |-> user_data.username,
                 hashed_password |-> get_password_hash(user_data.password),
                 is_active |-> TRUE]
    IN  /\ nextUserId <= MaxUserId
        /\ IF UsersUnique(users \cup {user})
           THEN /\ users' = users \cup {user}
                /\ nextUserId' = nextUserId + 1
                /\ Step("register", stage, user_data, 0, OK, "", <<user>>)
           ELSE /\ Step("register", stage, user_data, 0, ServerFault,
                        "Internal server error", << >>)
                /\ UNCHANGED <<users, nextUserId>>

\* register as one piece, no other request running between its awaits
Register(body) ==
    LET valid == UserCreate_validate(body) IN
    /\ IF valid = {} THEN
            /\ Step("register", "all", body, 0, BadRequest, "validation error", << >>)
            /\ UNCHANGED <<users, nextUserId>>
       ELSE LET user_data == CHOOSE d \in valid : TRUE IN
            IF UsersByEmail(user_data.email) # {} THEN
                /\ Step("register", "all", body, 0, BadRequest,
                        "Email already registered", << >>)
                /\ UNCHANGED <<users, nextUserId>>
            ELSE IF UsersByUsername(user_data.username) # {} THEN
                /\ Step("register", "all", body, 0, BadRequest,
                        "Username already taken", << >>)
                /\ UNCHANGED <<users, nextUserId>>
            ELSE RegisterInsert("all", user_data)
    /\ UNCHANGED <<tasks, nextTaskId, tokens, issued, regs, now, updates>>

\* register up to its first await: the body is validated, then the e-mail is
\* looked up
RegisterCheckEmail(body) ==
    LET valid == UserCreate_validate(body) IN
    /\ BagCardinality(regs) < MaxInflight
    /\ IF valid = {} THEN
            /\ Step("register", "email", body, 0, BadRequest, "validation error", << >>)
            /\ UNCHANGED regs
       ELSE LET user_data == CHOOSE d \in valid : TRUE IN
            IF UsersByEmail(user_data.email) # {} THEN
                /\ Step("register", "email", body, 0, BadRequest,
                        "Email already registered", << >>)
                /\ UNCHANGED regs
            ELSE
                /\ regs' = regs (+) SetToBag({[pc |-> "email_ok", user_data |-> user_data]})
                /\ Step("register", "email", body, 0, Pending, "", << >>)
    /\ UNCHANGED <<users, nextUserId, tasks, nextTaskId, tokens, issued, now, updates>>

RegisterCheckUsername_NoLookup(r) ==
    /\ BagIn(r, regs)
    /\ r.pc = "email_ok"
    /\ Step("register", "username", r.user_data, 0, Pending, "", << >>)
    /\ regs' = (regs (-) SetToBag({r})) (+) SetToBag({[r EXCEPT !.pc = "username_ok"]})
    /\ UNCHANGED <<users, nextUserId, tasks, nextTaskId, tokens, issued, now, updates>>

\* register up to its second await: the username is looked up
RegisterCheckUsername(r) ==
    /\ BagIn(r, regs)
    /\ r.pc = "email_ok"
    /\ IF UsersByUsername(r.user_data.username) # {} THEN
            /\ Step("register", "username", r.user_data, 0, BadRequest,
                    "Username already taken", << >>)
            /\ regs' = regs (-) SetToBag({r})
       ELSE /\ Step("register", "username", r.user_data, 0, Pending, "", << >>)
            /\ regs' = (regs (-) SetToBag({r})) (+) SetToBag({[r EXCEPT !.pc = "username_ok"]})
    /\ UNCHANGED <<users, nextUserId, tasks, nextTaskId, tokens, issued, now, updates>>

\* register from its second await to its end
RegisterCommit(r) ==
    /\ BagIn(r, regs)
    /\ r.pc = "username_ok"
    /\ RegisterInsert("commit", r.user_data)
    /\ regs' = regs (-) SetToBag({r})
    /\ UNCHANGED <<tasks, nextTaskId, tokens, issued, now, updates>>

Login_TellsUnknownUser(username, password) ==
    LET req == [username |-> username, password |-> password]
        found == UsersByUsername(username)
    IN  /\ IF found = {}
           THEN /\ Respond("login", req, 0, Unauthorized, "User not found")
                /\ UNCHANGED <<tokens, issued>>
           ELSE IF \E user \in found : ~verify_password(password, user.hashed_password)
           THEN /\ Respond("login", req, 0, Unauthorized, "Incorrect username or password")
                /\ UNCHANGED <<tokens, issued>>
           ELSE IF \E user \in found : ~user.is_active
           THEN /\ Respond("login", req, 0, Unauthorized, "Inactive user")
                /\ UNCHANGED <<tokens, issued>>
           ELSE LET user == CHOOSE u \in found : TRUE IN
                /\ tokens' = tokens \cup {create_access_token(user.username)}
                /\ issued' = issued \cup {<<create_access_token(user.username), user.id>>}
                /\ RespondWith("login", req, user.id, OK, "",
                               <<create_access_token(user.username)>>)
        /\ UNCHANGED <<users, nextUserId, tasks, nextTaskId, regs, now, updates>>

\* login
Login(username, password) ==
    LET req == [username |-> username, password |-> password]
        found == UsersByUsername(username)
    IN  /\ IF \/ found = {}
              \/ \E user \in found : ~verify_password(password, user.hashed_password)
           THEN /\ Respond("login", req, 0, Unauthorized, "Incorrect username or password")
                /\ UNCHANGED <<tokens, issued>>
           ELSE IF \E user \in found : ~user.is_active
           THEN /\ Respond("login", req, 0, Unauthorized, "Inactive user")
                /\ UNCHANGED <<tokens, issued>>
           ELSE LET user == CHOOSE u \in found : TRUE IN
                /\ tokens' = tokens \cup {create_access_token(user.username)}
                /\ issued' = issued \cup {<<create_access_token(user.username), user.id>>}
                /\ RespondWith("login", req, user.id, OK, "",
                               <<create_access_token(user.username)>>)
        /\ UNCHANGED <<users, nextUserId, tasks, nextTaskId, regs, now, updates>>

(* ------------------------ app/api/v1/users.py ------------------------- *)
\* a request body is the function from the fields it carries to their values
\* (pydantic: model_fields_set); model_dump(exclude_unset=True) is that function
model_dump_exclude_unset(body) == body

\* the bodies that carry a subset of the fields, with values from Values(field)
Restrict(full, fields) == [f \in fields |-> full[f]]

\* for field, value in update_data.items(): setattr(row, field, value)
SetAttrs(row, update_data) ==
    [f \in DOMAIN row |-> IF f \in DOMAIN update_data THEN update_data[f] ELSE row[f]]

\* d with d[k] = v
Put(d, k, v) == [f \in DOMAIN d \cup {k} |-> IF f = k THEN v ELSE d[f]]

\* d without the key k
Pop(d, k) == [f \in DOMAIN d \ {k} |-> d[f]]

\* GET /users/me
GetCurrentUserInfo(token) ==
    LET req == [token |-> token]
        auth == get_current_active_user(token)
    IN  /\ IF auth = {} THEN RespondUnauthorized("get_current_user_info", req)
           ELSE LET current_user == CHOOSE u \in auth : TRUE IN
                Respond("get_current_user_info", req, current_user.id, OK, "")
        /\ UNCHANGED <<users, nextUserId, tasks, nextTaskId, tokens, issued, regs, now, updates>>

\* the body of PATCH /users/me after UserUpdate's validators: {} when one raises
UserUpdate_validate(body) ==
    IF "password" \in DOMAIN body /\ UserUpdate_validate_password(body["password"]) = {}
    THEN {}
    ELSE IF "username" \notin DOMAIN body THEN {body}
    ELSE {[body EXCEPT !["username"] = n] : n \in UserUpdate_validate_username(body["username"])}

\* PATCH /users/me
UpdateCurrentUser(token, body) ==
    LET req == [token |-> token]
        auth == get_current_active_user(token)
        valid == UserUpdate_validate(body)
    IN  /\ IF auth = {} THEN
                /\ RespondUnauthorized("update_current_user", req)
                /\ UNCHANGED users
           ELSE LET current_user == CHOOSE u \in auth : TRUE IN
                IF valid = {} THEN
                    /\ Respond("update_current_user", req, current_user.id, BadRequest,
                               "validation error")
                    /\ UNCHANGED users
                ELSE
                    LET dumped == model_dump_exclude_unset(CHOOSE b \in valid : TRUE)
                        update_data ==
                            IF "password" \in DOMAIN dumped
                            THEN Put(Pop(dumped, "password"), "hashed_password",
                                     get_password_hash(dumped["password"]))
                            ELSE dumped
                        updated == SetAttrs(current_user, update_data)
                        stored == (users \ {current_user}) \cup {updated}
                    IN  IF /\ UsersUnique(stored)
                           /\ "password" \in DOMAIN dumped
                                 => ~get_password_hash_raises(dumped["password"])
                        THEN /\ users' = stored
                             /\ Respond("update_current_user", req, current_user.id, OK, "")
                        ELSE /\ UNCHANGED users
                             /\ Respond("update_current_user", req, current_user.id,
                                        ServerFault, "Internal server error")
        /\ UNCHANGED <<nextUserId, tasks, nextTaskId, tokens, issued, regs, now, updates>>

\* DELETE /users/me
DeleteCurrentUser(token) ==
    LET req == [token |-> token]
        auth == get_current_active_user(token)
    IN  /\ IF auth = {} THEN
                /\ RespondUnauthorized("delete_current_user", req)
                /\ UNCHANGED <<users, tasks>>
           ELSE LET current_user == CHOOSE u \in auth : TRUE IN
                /\ users' = users \ {current_user}
                /\ tasks' = TasksAfterUserDelete(current_user.id)
                /\ Respond("delete_current_user", req, current_user.id, OK, "")
        /\ UNCHANGED <<nextUserId, nextTaskId, tokens, issued, regs, now, updates>>

\* an operator of the store clears or sets the active flag of an account
SetActive(uid, flag) ==
    /\ \E u \in users :
          /\ u.id = uid
          /\ u.is_active # flag
          /\ users' = (users \ {u}) \cup {[u EXCEPT !.is_active = flag]}
    /\ EnvStep("set_active")
    /\ UNCHANGED <<nextUserId, tasks, nextTaskId, tokens, issued, regs, now, updates>>

\* the wall clock advances
Tick ==
    /\ now < MaxClock
    /\ now' = now + 1
    /\ EnvStep("tick")
    /\ UNCHANGED <<users, nextUserId, tasks, nextTaskId, tokens, issued, regs, updates>>

(* ------------------------ app/models/task.py -------------------------- *)
TaskStatus == {"todo", "in_progress", "done"}
TaskPriority == {"low", "medium", "high"}

\* Column(Boolean, default=True) of Task.is_completed
Task_default_is_completed == "True"

\* the NOT NULL columns of tasks a request can write
TaskNotNull(task) ==
    task["title"] # NoneStr /\ task["status"] # None /\ task["priority"] # None

(* ------------------------ app/schemas/task.py ------------------------- *)
\* the characters str.strip() and str.split() take for whitespace
Whitespace == {" ", "\t"}

RECURSIVE lstrip(_)
lstrip(v) == IF v # << >> /\ Head(v) \in Whitespace THEN lstrip(Tail(v)) ELSE v

RECURSIVE rstrip(_)
rstrip(v) ==
    IF v # << >> /\ v[Len(v)] \in Whitespace THEN rstrip(SubSeq(v, 1, Len(v) - 1)) ELSE v

\* str.strip()
strip(v) == rstrip(lstrip(v))

\* str.split(): the words between the runs of whitespace
RECURSIVE split(_)
split(v) ==
    LET s == lstrip(v) IN
    IF s = << >> THEN << >>
    ELSE LET n == CHOOSE i \in 1..Len(s) + 1 :
                      /\ i = Len(s) + 1 \/ s[i] \in Whitespace
                      /\ \A j \in 1..i - 1 : s[j] \notin Whitespace
         IN  <<SubSeq(s, 1, n - 1)>> \o split(SubSeq(s, n, Len(s)))

\* sep.join(words)
RECURSIVE join(_, _)
join(sep, words) ==
    IF words = << >> THEN << >>
    ELSE IF Len(words) = 1 THEN words[1]
    ELSE words[1] \o sep \o join(sep, Tail(words))

\* '  ' in v
HasTwoSpaces(v) == \E i \in 1..Len(v) - 1 : v[i] = " " /\ v[i + 1] = " "

TitleMinLength == 1
TitleMaxLength == 200
DescriptionMaxLength == 1000

\* TaskBase.validate_title: {} when it raises
TaskBase_validate_title(v) ==
    LET s == strip(v) IN
    IF s = << >> THEN {}
    ELSE IF HasTwoSpaces(s) THEN {join(<<" ">>, split(s))}
    ELSE {s}

\* TaskUpdate.validate_title: {} when it raises
TaskUpdate_validate_title(v) ==
    IF v = NoneStr THEN {v}
    ELSE LET s == strip(v) IN
         IF s = << >> THEN {}
         ELSE IF HasTwoSpaces(s) THEN {join(<<" ">>, split(s))}
         ELSE {s}

\* validate_description of TaskBase and of TaskUpdate
validate_description(v) ==
    IF v # NoneStr /\ strip(v) = << >> THEN NoneStr
    ELSE IF v # NoneStr THEN strip(v)
    ELSE v

\* the body of POST /tasks after TaskCreate's field constraints and validators:
\* {} when one raises
TaskCreate_validate(body) ==
    IF \/ "title" \notin DOMAIN body
       \/ body["title"] = NoneStr
       \/ Len(body["title"]) < TitleMinLength
       \/ Len(body["title"]) > TitleMaxLength
       \/ "description" \in DOMAIN body /\ body["description"] # NoneStr
             /\ Len(body["description"]) > DescriptionMaxLength
       \/ "status" \in DOMAIN body /\ body["status"] \notin TaskStatus
       \/ "priority" \in DOMAIN body /\ body["priority"] \notin TaskPriority
    THEN {}
    ELSE {[f \in DOMAIN body |->
              IF f = "title" THEN t
              ELSE IF f = "description" THEN validate_description(body[f])
              ELSE body[f]] : t \in TaskBase_validate_title(body["title"])}

\* TaskCreate.model_dump(): the fields of the body, the others at their defaults
TaskCreate_model_dump(body) ==
    [title |-> body["title"],
     description |-> IF "description" \in DOMAIN body THEN body["description"] ELSE NoneStr,
     status |-> IF "status" \in DOMAIN body THEN body["status"] ELSE "todo",
     priority |-> IF "priority" \in DOMAIN body THEN body["priority"] ELSE "medium"]

\* the body of PATCH /tasks/{task_id} after TaskUpdate's field constraints and
\* validators: {} when one raises
TaskUpdate_validate(body) ==
    IF \/ "title" \in DOMAIN body /\ body["title"] # NoneStr
             /\ (Len(body["title"]) < TitleMinLength \/ Len(body["title"]) > TitleMaxLength)
       \/ "description" \in DOMAIN body /\ body["description"] # NoneStr
             /\ Len(body["description"]) > DescriptionMaxLength
       \/ "status" \in DOMAIN body /\ body["status"] \notin TaskStatus \cup {None}
       \/ "priority" \in DOMAIN body /\ body["priority"] \notin TaskPriority \cup {None}
       \/ "is_completed" \in DOMAIN body /\ body["is_completed"] \notin {"True", "False", None}
    THEN {}
    ELSE IF "title" \notin DOMAIN body
    THEN {[f \in DOMAIN body |->
              IF f = "description" THEN validate_description(body[f]) ELSE body[f]]}
    ELSE {[f \in DOMAIN body |->
              IF f = "title" THEN t
              ELSE IF f = "description" THEN validate_description(body[f])
              ELSE body[f]] : t \in TaskUpdate_validate_title(body["title"])}

(* -------------------------- app/database.py --------------------------- *)
\* the row that commit leaves of a row the session loaded as `loaded` and holds
\* as `current`: the UPDATE writes the attributes that differ from the loaded
\* ones and, onupdate, updated_at; with no attribute changed there is no UPDATE
Flush(row, loaded, current) ==
    IF \A f \in DOMAIN current : current[f] = loaded[f] THEN row
    ELSE [f \in DOMAIN row |->
             IF f = "updated_at" THEN now
             ELSE IF current[f] # loaded[f] THEN current[f]
             ELSE row[f]]

(* ------------------------ app/api/v1/tasks.py ------------------------- *)
\* select(Task).where(Task.id == task_id)
TaskById(task_id) == {t \in tasks : t.id = task_id}

\* POST /tasks
CreateTask(token, body) ==
    LET req == [token |-> token, body |-> body]
        auth == get_current_active_user(token)
    IN  /\ IF auth = {} THEN
                /\ RespondUnauthorized("create_task", req)
                /\ UNCHANGED <<tasks, nextTaskId>>
           ELSE LET current_user == CHOOSE u \in auth : TRUE
                    valid == TaskCreate_validate(body)
                IN  IF valid = {} THEN
                        /\ Respond("create_task", req, current_user.id, BadRequest,
                                   "validation error")
                        /\ UNCHANGED <<tasks, nextTaskId>>
                    ELSE
                        LET task_data == TaskCreate_model_dump(CHOOSE b \in valid : TRUE)
                            task == [id |-> nextTaskId,
                                     title |-> task_data.title,
                                     description |-> task_data.description,
                                     status |-> task_data.status,
                                     priority |-> task_data.priority,
                                     is_completed |-> Task_default_is_completed,
                                     owner_id |-> current_user.id,
                                     created_at |-> now,
                                     updated_at |-> NullTime,
                                     completed_at |-> NullTime]
                        IN  /\ nextTaskId <= MaxTaskId
                            /\ tasks' = tasks \cup {task}
                            /\ nextTaskId' = nextTaskId + 1
                            /\ RespondWith("create_task", req, current_user.id, OK, "",
                                           <<task>>)
        /\ UNCHANGED <<users, nextUserId, tokens, issued, regs, now, updates>>

GetTask_HidesForeignTask(token, task_id) ==
    LET req == [token |-> token, task_id |-> task_id]
        auth == get_current_active_user(token)
    IN  /\ IF auth = {} THEN RespondUnauthorized("get_task", req)
           ELSE LET current_user == CHOOSE u \in auth : TRUE
                    found == {t \in TaskById(task_id) : t.owner_id = current_user.id}
                IN  IF found = {} THEN
                        Respond("get_task", req, current_user.id, NotFound, "Task not found")
                    ELSE RespondWith("get_task", req, current_user.id, OK, "",
                                     <<CHOOSE t \in found : TRUE>>)
        /\ UNCHANGED <<users, nextUserId, tasks, nextTaskId, tokens, issued, regs, now, updates>>

\* GET /tasks/{task_id}
GetTask(token, task_id) ==
    LET req == [token |-> token, task_id |-> task_id]
        auth == get_current_active_user(token)
        found == TaskById(task_id)
    IN  /\ IF auth = {} THEN RespondUnauthorized("get_task", req)
           ELSE LET current_user == CHOOSE u \in auth : TRUE IN
                IF found = {} THEN
                    Respond("get_task", req, current_user.id, NotFound, "Task not found")
                ELSE LET task == CHOOSE t \in found : TRUE IN
                    IF task.owner_id # current_user.id THEN
                        Respond("get_task", req, current_user.id, Forbidden,
                                "Not authorized to access this task")
                    ELSE RespondWith("get_task", req, current_user.id, OK, "", <<task>>)
        /\ UNCHANGED <<users, nextUserId, tasks, nextTaskId, tokens, issued, regs, now, updates>>

CompletionCoupling_KeepsStatus(update_data) ==
    IF "is_completed" \in DOMAIN update_data /\ update_data["is_completed"] = "True"
    THEN Put(update_data, "completed_at", now)
    ELSE IF "is_completed" \in DOMAIN update_data /\ update_data["is_completed"] # "True"
    THEN Put(update_data, "completed_at", NullTime)
    ELSE update_data

CompletionCoupling_StatusClears(update_data) ==
    IF "is_completed" \in DOMAIN update_data /\ update_data["is_completed"] = "True"
    THEN Put(Put(update_data, "completed_at", now), "status", "done")
    ELSE IF "is_completed" \in DOMAIN update_data /\ update_data["is_completed"] # "True"
    THEN Put(update_data, "completed_at", NullTime)
    ELSE IF "status" \in DOMAIN update_data
    THEN Put(Put(update_data, "completed_at", NullTime), "is_completed", "False")
    ELSE update_data

\* update_task, lines 95-99: the completion coupling on update_data
CompletionCoupling(update_data) ==
    IF "is_completed" \in DOMAIN update_data /\ update_data["is_completed"] = "True"
    THEN Put(Put(update_data, "completed_at", now), "status", "done")
    ELSE IF "is_completed" \in DOMAIN update_data /\ update_data["is_completed"] # "True"
    THEN Put(update_data, "completed_at", NullTime)
    ELSE update_data

\* PATCH /tasks/{task_id}
UpdateTask(token, task_id, body) ==
    LET req == [token |-> token, task_id |-> task_id, body |-> body]
        auth == get_current_active_user(token)
        valid == TaskUpdate_validate(body)
        found == TaskById(task_id)
    IN  /\ IF auth = {} THEN
                /\ RespondUnauthorized("update_task", req)
                /\ UNCHANGED tasks
           ELSE LET current_user == CHOOSE u \in auth : TRUE IN
                IF valid = {} THEN
                    /\ Respond("update_task", req, current_user.id, BadRequest,
                               "validation error")
                    /\ UNCHANGED tasks
                ELSE IF found = {} THEN
                    /\ Respond("update_task", req, current_user.id, NotFound, "Task not found")
                    /\ UNCHANGED tasks
                ELSE LET task == CHOOSE t \in found : TRUE IN
                    IF task.owner_id # current_user.id THEN
                        /\ Respond("update_task", req, current_user.id, Forbidden,
                                   "Not authorized to update this task")
                        /\ UNCHANGED tasks
                    ELSE
                        LET update_data ==
                                CompletionCoupling(
                                    model_dump_exclude_unset(CHOOSE b \in valid : TRUE))
                            updated == SetAttrs(task, update_data)
                            stored == Flush(task, task, updated)
                        IN  IF TaskNotNull(updated)
                            THEN /\ tasks' = (tasks \ {task}) \cup {stored}
                                 /\ RespondWith("update_task", req, current_user.id, OK, "",
                                                <<stored>>)
                            ELSE /\ UNCHANGED tasks
                                 /\ Respond("update_task", req, current_user.id, ServerFault,
                                            "Internal server error")
        /\ UNCHANGED <<users, nextUserId, nextTaskId, tokens, issued, regs, now, updates>>

\* update_task up to its commit: the session has loaded the row and set the
\* attributes of update_data on it
UpdateTaskRead(token, task_id, body) ==
    LET req == [token |-> token, task_id |-> task_id, body |-> body]
        auth == get_current_active_user(token)
        valid == TaskUpdate_validate(body)
        found == TaskById(task_id)
    IN  /\ Cardinality(updates) < MaxInflight
        /\ IF auth = {} THEN
                /\ RespondUnauthorized("update_task", req)
                /\ UNCHANGED updates
           ELSE LET current_user == CHOOSE u \in auth : TRUE IN
                IF valid = {} THEN
                    /\ Respond("update_task", req, current_user.id, BadRequest,
                               "validation error")
                    /\ UNCHANGED updates
                ELSE IF found = {} THEN
                    /\ Respond("update_task", req, current_user.id, NotFound, "Task not found")
                    /\ UNCHANGED updates
                ELSE LET task == CHOOSE t \in found : TRUE IN
                    IF task.owner_id # current_user.id THEN
                        /\ Respond("update_task", req, current_user.id, Forbidden,
                                   "Not authorized to update this task")
                        /\ UNCHANGED updates
                    ELSE
                        LET update_data ==
                                CompletionCoupling(
                                    model_dump_exclude_unset(CHOOSE b \in valid : TRUE))
                            updated == SetAttrs(task, update_data)
                        IN  /\ updates' = updates \cup
                                   {[req |-> req, caller |-> current_user.id,
                                     loaded |-> task, task |-> updated]}
                            /\ Step("update_task", "read", req, current_user.id, Pending,
                                    "", << >>)
        /\ UNCHANGED <<users, nextUserId, tasks, nextTaskId, tokens, issued, regs, now>>

\* update_task from its commit to its end: the UPDATE finds no row when the
\* task was deleted meanwhile
UpdateTaskCommit(u) ==
    LET found == TaskById(u.loaded.id) IN
    /\ u \in updates
    /\ updates' = updates \ {u}
    /\ IF found = {} \/ ~TaskNotNull(u.task) THEN
            /\ UNCHANGED tasks
            /\ Step("update_task", "commit", u.req, u.caller, ServerFault,
                    "Internal server error", << >>)
       ELSE LET row == CHOOSE t \in found : TRUE
                stored == Flush(row, u.loaded, u.task)
            IN  /\ tasks' = (tasks \ {row}) \cup {stored}
                /\ Step("update_task", "commit", u.req, u.caller, OK, "", <<stored>>)
    /\ UNCHANGED <<users, nextUserId, nextTaskId, tokens, issued, regs, now>>

DeleteTask_NoOwnerCheck(token, task_id) ==
    LET req == [token |-> token, task_id |-> task_id]
        auth == get_current_active_user(token)
        found == TaskById(task_id)
    IN  /\ IF auth = {} THEN
                /\ RespondUnauthorized("delete_task", req)
                /\ UNCHANGED tasks
           ELSE LET current_user == CHOOSE u \in auth : TRUE IN
                IF found = {} THEN
                    /\ Respond("delete_task", req, current_user.id, NotFound, "Task not found")
                    /\ UNCHANGED tasks
                ELSE
                    /\ tasks' = tasks \ found
                    /\ Respond("delete_task", req, current_user.id, OK, "")
        /\ UNCHANGED <<users, nextUserId, nextTaskId, tokens, issued, regs, now, updates>>

\* DELETE /tasks/{task_id}
DeleteTask(token, task_id) ==
    LET req == [token |-> token, task_id |-> task_id]
        auth == get_current_active_user(token)
        found == TaskById(task_id)
    IN  /\ IF auth = {} THEN
                /\ RespondUnauthorized("delete_task", req)
                /\ UNCHANGED tasks
           ELSE LET current_user == CHOOSE u \in auth : TRUE IN
                IF found = {} THEN
                    /\ Respond("delete_task", req, current_user.id, NotFound, "Task not found")
                    /\ UNCHANGED tasks
                ELSE LET task == CHOOSE t \in found : TRUE IN
                    IF task.owner_id # current_user.id THEN
                        /\ Respond("delete_task", req, current_user.id, Forbidden,
                                   "Not authorized to delete this task")
                        /\ UNCHANGED tasks
                    ELSE
                        /\ tasks' = tasks \ {task}
                        /\ Respond("delete_task", req, current_user.id, OK, "")
        /\ UNCHANGED <<users, nextUserId, nextTaskId, tokens, issued, regs, now, updates>>

\* the orderings of a set of rows that ORDER BY created_at DESC may return
OrderByCreatedAtDesc(rows) ==
    {r \in [1..Cardinality(rows) -> rows] :
        /\ \A i, j \in DOMAIN r : i # j => r[i] # r[j]
        /\ \A i, j \in DOMAIN r : i < j => r[i].created_at >= r[j].created_at}

GetTasksQuery_CompletedTruthy(current_user, params) ==
    {t \in tasks :
        /\ t.owner_id = current_user.id
        /\ "status" \in DOMAIN params => t.status = params["status"]
        /\ "priority" \in DOMAIN params => t.priority = params["priority"]
        /\ ("completed" \in DOMAIN params /\ params["completed"] = "True")
              => t.is_completed = params["completed"]}

\* the rows the query of get_tasks selects: query parameters absent from
\* params are None
GetTasksQuery(current_user, params) ==
    {t \in tasks :
        /\ t.owner_id = current_user.id
        /\ "status" \in DOMAIN params => t.status = params["status"]
        /\ "priority" \in DOMAIN params => t.priority = params["priority"]
        /\ "completed" \in DOMAIN params => t.is_completed = params["completed"]}

\* GET /tasks
GetTasks(token, params) ==
    LET req == [token |-> token, params |-> params]
        auth == get_current_active_user(token)
    IN  /\ IF auth = {} THEN RespondUnauthorized("get_tasks", req)
           ELSE LET current_user == CHOOSE u \in auth : TRUE IN
                \E result \in OrderByCreatedAtDesc(GetTasksQuery(current_user, params)) :
                    RespondWith("get_tasks", req, current_user.id, OK, "", result)
        /\ UNCHANGED <<users, nextUserId, tasks, nextTaskId, tokens, issued, regs, now, updates>>

(* --------------------------- specifications --------------------------- *)
UserIds == 1..MaxUserId
TaskIds == 1..MaxTaskId

\* the registrations in flight
Inflight == BagToSet(regs)

\* the bodies POST /auth/register may carry in Spec
RegisterBodies ==
    {[email |-> e, username |-> u, password |-> Secur3pass] :
        e \in Emails, u \in {bob, Bob, admin, Admin, <<"2", "b", "o">>, <<"b", "o">>}}

\* the bodies PATCH /users/me may carry in Spec
ProfileBodies ==
    {Restrict([email |-> e, username |-> u], F) :
        e \in Emails, u \in {Bob, b_2, Admin, <<"b", "-", "o">>},
        F \in SUBSET {"email", "username"}}

\* the account requests, registrations interleaving at their awaits; no task
\* exists and no account is deactivated
Next ==
    \/ \E body \in RegisterBodies : RegisterCheckEmail(body)
    \/ \E r \in Inflight : RegisterCheckUsername(r)
    \/ \E r \in Inflight : RegisterCommit(r)
    \/ Login(bob, Secur3pass)
    \/ \E token \in RequestTokens, body \in ProfileBodies : UpdateCurrentUser(token, body)
    \/ \E token \in RequestTokens : DeleteCurrentUser(token)

Spec == Init /\ [][Next]_vars

\* the body of POST /tasks that carries a title and nothing else
TitleOnly == [title |-> <<"a", "b">>]

\* the two accounts of the specifications about tasks
BobBody == [email |-> "bob@x.io", username |-> Bob, password |-> Secur3pass]
B2Body == [email |-> "Bob@x.io", username |-> b_2, password |-> Secur3pass]

\* a body that carries no field
NoFields == << >>

\* login with every spelling of the username, of accounts that are deactivated
\* and reactivated
NextLogin ==
    \/ \E body \in {BobBody, B2Body} : Register(body)
    \/ \E u \in LoginUsernames, p \in Passwords : Login(u, p)
    \/ \E uid \in UserIds, flag \in BOOLEAN : SetActive(uid, flag)

SpecLogin == Init /\ [][NextLogin]_vars

\* every protected operation, by one account that is renamed, deactivated and
\* deleted
NextGate ==
    \/ Register(BobBody)
    \/ Login(bob, Secur3pass)
    \/ \E uid \in UserIds, flag \in BOOLEAN : SetActive(uid, flag)
    \/ \E token \in RequestTokens : GetCurrentUserInfo(token)
    \/ \E token \in RequestTokens : UpdateCurrentUser(token, [username |-> b_2])
    \/ \E token \in RequestTokens : DeleteCurrentUser(token)
    \/ \E token \in RequestTokens : CreateTask(token, TitleOnly)
    \/ \E token \in RequestTokens : GetTasks(token, NoFields)
    \/ \E token \in RequestTokens, id \in TaskIds : GetTask(token, id)
    \/ \E token \in RequestTokens, id \in TaskIds :
           UpdateTask(token, id, [is_completed |-> "False"])
    \/ \E token \in RequestTokens, id \in TaskIds : DeleteTask(token, id)

SpecGate == Init /\ [][NextGate]_vars

\* two accounts reading, updating and deleting tasks of their own and of each
\* other
NextAuthz ==
    \/ \E body \in {BobBody, B2Body} : Register(body)
    \/ \E u \in {bob, b_2} : Login(u, Secur3pass)
    \/ \E token \in RequestTokens : DeleteCurrentUser(token)
    \/ \E token \in tokens : CreateTask(token, TitleOnly)
    \/ \E token \in tokens, id \in TaskIds \cup {MaxTaskId + 1} : GetTask(token, id)
    \/ \E token \in tokens, id \in TaskIds \cup {MaxTaskId + 1} :
           UpdateTask(token, id, [status |-> "in_progress"])
    \/ \E token \in tokens, id \in TaskIds \cup {MaxTaskId + 1} : DeleteTask(token, id)

SpecAuthz == Init /\ [][NextAuthz]_vars

\* the bodies POST /tasks may carry in SpecState
StateCreateBodies == {TitleOnly, [title |-> <<"a", "b">>, status |-> "done"]}

\* the bodies PATCH /tasks/{task_id} may carry in SpecState: any subset of
\* status and is_completed, a null is_completed included
StateUpdateBodies ==
    {Restrict([status |-> "in_progress", is_completed |-> c], F) :
        c \in {"True", "False", None}, F \in SUBSET {"status", "is_completed"}}

\* one account creating and updating its tasks
NextState ==
    \/ Register(BobBody)
    \/ Login(bob, Secur3pass)
    \/ \E token \in RequestTokens, body \in StateCreateBodies : CreateTask(token, body)
    \/ \E token \in tokens, id \in TaskIds, body \in StateUpdateBodies :
           UpdateTask(token, id, body)

SpecState == Init /\ [][NextState]_vars

\* the query parameters GET /tasks may carry in SpecList
ListParams ==
    {NoFields, [status |-> "todo"], [priority |-> "high"], [completed |-> "False"],
     [status |-> "in_progress", priority |-> "high", completed |-> "False"]}

\* two accounts creating tasks at different instants, one kind of update of
\* the first task, and the filtered listings of both
NextList ==
    \/ \E body \in {BobBody, B2Body} : Register(body)
    \/ \E u \in {bob, b_2} : Login(u, Secur3pass)
    \/ \E token \in tokens : CreateTask(token, TitleOnly)
    \/ \E token \in tokens :
           UpdateTask(token, 1, [status |-> "in_progress", priority |-> "high",
                                 is_completed |-> "False"])
    \/ \E token \in tokens, params \in ListParams : GetTasks(token, params)
    \/ Tick

SpecList == Init /\ [][NextList]_vars

\* the bodies PATCH /tasks/{task_id} may carry in SpecFrame
FrameUpdateBodies ==
    {NoFields, [title |-> <<"b">>], [status |-> "in_progress"],
     [is_completed |-> "True"], [is_completed |-> "False"],
     [description |-> <<"d">>, priority |-> "high"]}

\* one account creating tasks and updating the first of them, a field or two
\* at a time, at different instants
NextFrame ==
    \/ Register(BobBody)
    \/ Login(bob, Secur3pass)
    \/ \E token \in tokens : CreateTask(token, TitleOnly)
    \/ \E token \in tokens, body \in FrameUpdateBodies : UpdateTask(token, 1, body)
    \/ Tick

SpecFrame == Init /\ [][NextFrame]_vars

\* one username held by one account after another: login, rename, deletion
\* and registration of the name again, and requests that carry the tokens
NextToken ==
    \/ \E body \in {BobBody, B2Body} : Register(body)
    \/ \E u \in {bob, b_2} : Login(u, Secur3pass)
    \/ \E token \in RequestTokens : UpdateCurrentUser(token, [username |-> b_2])
    \/ \E token \in RequestTokens : DeleteCurrentUser(token)
    \/ \E token \in RequestTokens : GetCurrentUserInfo(token)

SpecToken == Init /\ [][NextToken]_vars

\* the bodies PATCH /tasks/{task_id} may carry in SpecNull: any subset of
\* title, status, priority and is_completed, each with a value or an explicit
\* null
NullUpdateBodies ==
    {Restrict([title |-> t, status |-> st, priority |-> pr, is_completed |-> c], F) :
        t \in {<<"b">>, NoneStr}, st \in {"done", None}, pr \in {"low", None},
        c \in {"False", None},
        F \in SUBSET {"title", "status", "priority", "is_completed"}}

\* one account creating tasks and updating the first of them with values and
\* with explicit nulls
NextNull ==
    \/ Register(BobBody)
    \/ Login(bob, Secur3pass)
    \/ \E token \in tokens : CreateTask(token, TitleOnly)
    \/ \E token \in tokens, body \in NullUpdateBodies : UpdateTask(token, 1, body)

SpecNull == Init /\ [][NextNull]_vars

\* the bodies PATCH /tasks/{task_id} may carry in SpecRace
RaceUpdateBodies ==
    {[status |-> "todo"], [status |-> "in_progress"], [is_completed |-> "True"],
     [title |-> <<"b">>, priority |-> "high"]}

\* one account whose updates of its first task interleave at their commits
NextRace ==
    \/ Register(BobBody)
    \/ Login(bob, Secur3pass)
    \/ \E token \in tokens : CreateTask(token, TitleOnly)
    \/ \E token \in tokens, body \in RaceUpdateBodies : UpdateTaskRead(token, 1, body)
    \/ \E u \in updates : UpdateTaskCommit(u)

SpecRace == Init /\ [][NextRace]_vars

\* the first letter of a password in upper case
Capitalized(v) ==
    IF v[1] \in LowerLetters
    THEN <<UpperAlphabet[CHOOSE i \in DOMAIN LowerAlphabet : LowerAlphabet[i] = v[1]]>>
             \o Tail(v)
    ELSE v

\* the passwords a request may carry in SpecPassword: the weak passwords and
\* two more, as they are and capitalized, alone and followed by characters of
\* the four classes; a password of seven characters; None
PasswordInputs ==
    {c \o tail :
        c \in {v : v \in weak_passwords \cup {<<"a", "b", "c", "d", "e", "f", "g">>,
                                             <<"p", "a", "s", "s", "w", "o", "r", "d">>}}
              \cup {Capitalized(v) :
                       v \in weak_passwords \cup {<<"a", "b", "c", "d", "e", "f", "g">>,
                                                  <<"p", "a", "s", "s", "w", "o", "r", "d">>}},
        tail \in {<< >>, <<"!">>, <<"1">>, <<"A">>, <<"1", "!">>, <<"Z", "?">>}}
    \cup {<<"P", "a", "s", "s", "1", "!">>, NoneStr}

\* one account registered and re-registered under any password, changing its
\* password to any password
NextPassword ==
    \/ \E p \in PasswordInputs \ {NoneStr} :
           Register([email |-> "bob@x.io", username |-> Bob, password |-> p])
    \/ \E p \in PasswordInputs \ {NoneStr} : Login(bob, p)
    \/ \E token \in RequestTokens, p \in PasswordInputs :
           UpdateCurrentUser(token, [password |-> p])
    \/ \E token \in RequestTokens : DeleteCurrentUser(token)

SpecPassword == Init /\ [][NextPassword]_vars

\* the titles a request may carry in SpecTitle: every text of one to three
\* characters out of a letter, the space and the tab
TitleInputs ==
    LET C == {"a", " ", "\t"} IN
    {<<x>> : x \in C} \cup {<<x, y>> : x, y \in C} \cup {<<x, y, z>> : x, y, z \in C}

\* one account creating tasks under any title and retitling the first of them
NextTitle ==
    \/ Register(BobBody)
    \/ Login(bob, Secur3pass)
    \/ \E token \in tokens, t \in TitleInputs : CreateTask(token, [title |-> t])
    \/ \E token \in tokens, t \in TitleInputs : UpdateTask(token, 1, [title |-> t])

SpecTitle == Init /\ [][NextTitle]_vars

(* ------------------------------- claims ------------------------------- *)
\* the accounts a bearer token stands for: its signature verifies and its
\* subject is the username of a stored account whose active flag is set
Bearer(token) == {u \in users : token.valid /\ u.username = token.sub /\ u.is_active}

TaskOps == {"get_task", "update_task", "delete_task"}
ProtectedOps == TaskOps \cup {"create_task", "get_tasks", "get_current_user_info",
                              "update_current_user", "delete_current_user"}

\* C1: get_task, update_task and delete_task by an authenticated caller answer
\* NotFound when the id resolves to no task, Forbidden when the task is owned by
\* another account, and neither when the caller owns it; on NotFound and
\* Forbidden the stored tasks are unchanged.
C1_ExistenceThenOwnership ==
    [][(last'.op \in TaskOps /\ Bearer(last'.req.token) # {}) =>
        LET found == {t \in tasks : t.id = last'.req.task_id} IN
        /\ found = {} => last'.outcome = NotFound /\ tasks' = tasks
        /\ \A t \in found, u \in Bearer(last'.req.token) :
              /\ t.owner_id # u.id => last'.outcome = Forbidden /\ tasks' = tasks
              /\ t.owner_id = u.id => last'.outcome = OK]_vars

\* an account asked for a task of another account and was answered Forbidden
C1_Witness ==
    /\ last.op = "get_task"
    /\ last.outcome = Forbidden
    /\ \E t \in tasks : t.id = last.req.task_id /\ t.owner_id # last.caller

\* C2: a protected operation whose token does not verify, whose subject is no
\* stored account, or whose account is inactive is answered Unauthorized and
\* changes nothing in the store; any other answer is given to the active
\* account the token names.
C2_GateBeforeHandler ==
    [][last'.op \in ProtectedOps =>
        /\ Bearer(last'.req.token) = {}
              => /\ last'.outcome = Unauthorized
                 /\ UNCHANGED <<users, nextUserId, tasks, nextTaskId, tokens>>
        /\ last'.outcome # Unauthorized
              => \E u \in Bearer(last'.req.token) : last'.caller = u.id]_vars

\* a token that verifies, of an account that is deactivated, was rejected
C2_Witness ==
    /\ last.op \in ProtectedOps
    /\ last.outcome = Unauthorized
    /\ last.req.token.valid
    /\ \E u \in users : u.username = last.req.token.sub /\ ~u.is_active

\* C3: a stored task changes or disappears only in a step that answers an
\* update_task, a delete_task or a delete_current_user request carrying the
\* token of the account that owns it; a task is created with the caller as
\* owner, and its owner never changes.
C3_OnlyOwnerMutates ==
    [][/\ \A t \in tasks \ tasks' :
             /\ last'.op \in {"update_task", "delete_task", "delete_current_user"}
             /\ last'.outcome = OK
             /\ \E u \in Bearer(last'.req.token) : u.id = t.owner_id
       /\ \A t \in tasks' \ tasks :
             \/ \E old \in tasks \ tasks' : old.id = t.id /\ old.owner_id = t.owner_id
             \/ /\ last'.op = "create_task"
                /\ \A old \in tasks : old.id # t.id
                /\ \E u \in Bearer(last'.req.token) : u.id = t.owner_id]_vars

\* an account updated its own task while another account is registered
C3_Witness ==
    /\ last.op = "update_task"
    /\ last.outcome = OK
    /\ \E u \in users : u.id # last.caller

\* C4: an accepted update_task that sets is_completed to true leaves the task
\* with status done and a completion timestamp, whatever the task was and
\* whatever else the body carries; one that sets it to false leaves the task
\* without a completion timestamp.
C4_CompletionCoupling ==
    [][(/\ last'.op = "update_task"
        /\ last'.outcome = OK
        /\ "is_completed" \in DOMAIN last'.req.body) =>
        \E t \in tasks' :
            /\ t.id = last'.req.task_id
            /\ last'.req.body["is_completed"] = "True"
                  => /\ t.status = "done"
                     /\ t.completed_at # NullTime
                     /\ t.is_completed = "True"
            /\ last'.req.body["is_completed"] = "False"
                  => t.completed_at = NullTime /\ t.is_completed = "False"]_vars

\* an update that set is_completed to true together with another status was
\* accepted
C4_Witness ==
    /\ last.op = "update_task"
    /\ last.outcome = OK
    /\ DOMAIN last.req.body = {"status", "is_completed"}
    /\ last.req.body["is_completed"] = "True"
    /\ last.req.body["status"] = "in_progress"

\* C5: every stored task has a completion timestamp exactly when its completion
\* flag is true.
C5_CompletionConsistent ==
    \A t \in tasks : (t.completed_at # NullTime) <=> (t.is_completed = "True")

\* the response of login to a username no account has (auth.py, line 45)
FailedLoginSignal == [outcome |-> Unauthorized, detail |-> "Incorrect username or password"]

LoginSignal == [outcome |-> last.outcome, detail |-> last.detail]

\* C6 as claimed: every failed login is answered with one and the same signal.
C6_UniformLoginFailure ==
    (last.op = "login" /\ last.outcome # OK) => LoginSignal = FailedLoginSignal

\* C6 as amended: every failed login is answered Unauthorized and issues no
\* token; an unknown username and a wrong password are answered with one and the
\* same detail, the correct password of an inactive account with another.
C6_LoginFailureSignals ==
    [][last'.op = "login" =>
        LET found == {u \in users : u.username = last'.req.username}
            right == {u \in found : verify_password(last'.req.password, u.hashed_password)}
        IN  /\ right = {}
                  => /\ last'.outcome = Unauthorized
                     /\ last'.detail = "Incorrect username or password"
                     /\ tokens' = tokens
            /\ (right # {} /\ \A u \in right : ~u.is_active)
                  => /\ last'.outcome = Unauthorized
                     /\ last'.detail = "Inactive user"
                     /\ tokens' = tokens
            /\ last'.outcome \in {OK, Unauthorized}]_vars

\* the three failures: this one is the correct password of an inactive account
C6_Witness ==
    /\ last.op = "login"
    /\ last.outcome = Unauthorized
    /\ \E u \in users :
          /\ u.username = last.req.username
          /\ verify_password(last.req.password, u.hashed_password)
          /\ ~u.is_active

\* the e-mails and the case-folded usernames of the stored accounts
StoredEmails == {u.email : u \in users}
StoredNames == {Lower(u.username) : u \in users}

\* C7: a registration whose e-mail is that of an account stored when register
\* looks the e-mail up, or whose username is, letter case ignored, that of an
\* account stored when register looks the username up, is answered BadRequest
\* and goes no further; a registration that does create an account has an e-mail
\* and a case-folded username no stored account had.
C7_DuplicateRegistrationFails ==
    [][last'.op = "register" =>
        /\ (last'.stage = "email" /\ last'.req.email \in StoredEmails)
              => last'.outcome = BadRequest /\ users' = users /\ regs' = regs
        /\ (last'.stage = "username" /\ Lower(last'.req.username) \in StoredNames)
              => /\ last'.outcome = BadRequest
                 /\ users' = users
                 /\ BagCardinality(regs') = BagCardinality(regs) - 1
        /\ (last'.stage = "email" /\ last'.outcome = Pending)
              => \E r \in BagToSet(regs') :
                    /\ r.user_data.email = last'.req.email
                    /\ r.user_data.username = Lower(last'.req.username)
        /\ users' # users
              => \E u \in users' \ users :
                    /\ users' = users \cup {u}
                    /\ u.email \notin StoredEmails
                    /\ Lower(u.username) \notin StoredNames]_vars

\* a registration was refused because its username is taken
C7_Witness ==
    /\ last.op = "register"
    /\ last.stage = "username"
    /\ last.outcome = BadRequest
    /\ Lower(last.req.username) \in StoredNames

\* C8: no two stored accounts have the same case-folded username, and no two
\* have the same e-mail.
C8_AccountsUnique ==
    \A u, w \in users :
        u # w => Lower(u.username) # Lower(w.username) /\ u.email # w.email

\* two registrations of one username interleaved, and the later INSERT was
\* refused while the earlier account is stored
C8_Witness ==
    /\ last.op = "register"
    /\ last.stage = "commit"
    /\ last.outcome = ServerFault
    /\ Lower(last.req.username) \in StoredNames

\* C9: every stored username starts with a letter, holds only letters, digits
\* and underscores, is lowercase and is not reserved.
C9_StoredUsernamesValid ==
    \A u \in users :
        /\ UsernamePattern(u.username)
        /\ u.username = Lower(u.username)
        /\ u.username \notin inappropriate_words

\* C10: login with the correct password and any spelling of the username of an
\* active account returns a token for that account.
C10_LoginFoldsCase ==
    \A u \in users :
        (/\ last.op = "login"
         /\ Lower(last.req.username) = u.username
         /\ verify_password(last.req.password, u.hashed_password)
         /\ u.is_active)
        => /\ last.outcome = OK
           /\ last.caller = u.id
           /\ last.body = <<create_access_token(u.username)>>

\* C11: get_tasks returns, each once, exactly the tasks that the caller owns and
\* that match every filter supplied, newest created first; no task of another
\* account is in the result.
C11_ListScopedFilteredOrdered ==
    (last.op = "get_tasks" /\ last.outcome = OK) =>
        \E u \in Bearer(last.req.token) :
            LET params == last.req.params
                result == last.body
                expected ==
                    {t \in tasks :
                        /\ t.owner_id = u.id
                        /\ "status" \in DOMAIN params => t.status = params["status"]
                        /\ "priority" \in DOMAIN params => t.priority = params["priority"]
                        /\ "completed" \in DOMAIN params
                              => t.is_completed = params["completed"]}
            IN  /\ {result[i] : i \in DOMAIN result} = expected
                /\ Len(result) = Cardinality(expected)
                /\ \A i \in DOMAIN result : result[i].owner_id = u.id
                /\ \A i, j \in DOMAIN result :
                      i < j => result[i].created_at >= result[j].created_at

\* a filtered listing returned the caller's task and left out a task of
\* another account that matches the same filter
C11_Witness ==
    /\ last.op = "get_tasks"
    /\ last.outcome = OK
    /\ last.req.params = [status |-> "todo"]
    /\ Len(last.body) = 1
    /\ \E t \in tasks : t.owner_id # last.caller /\ t.status = "todo"

\* the fields of the task of an accepted update_task that differ before and
\* after the step
ChangedFields(old, new) == {f \in DOMAIN old : new[f] # old[f]}

\* the fields an update_task carrying body may change according to C12
RequestedFields(body) ==
    DOMAIN body \cup
        (IF "is_completed" \in DOMAIN body THEN {"status", "completed_at"} ELSE {})

\* C12 as stated: an accepted update_task changes only the fields present in
\* the request, plus status and completed_at when is_completed is present;
\* every other field of the task, and every other task, keeps its value.
C12_OnlyRequestedFieldsChange ==
    [][(last'.op = "update_task" /\ last'.outcome = OK) =>
        \E old \in tasks, new \in tasks' :
            /\ old.id = last'.req.task_id
            /\ new.id = old.id
            /\ tasks' \ {new} = tasks \ {old}
            /\ ChangedFields(old, new) \subseteq RequestedFields(last'.req.body)]_vars

\* C12, amended: an accepted update_task changes only the fields present in
\* the request, plus status and completed_at when is_completed is present, plus
\* updated_at; id, owner_id and created_at never change, and a request that
\* sets only status leaves is_completed and completed_at as they were.
C12_UpdateFrame ==
    [][(last'.op = "update_task" /\ last'.outcome = OK) =>
        \E old \in tasks, new \in tasks' :
            /\ old.id = last'.req.task_id
            /\ new.id = old.id
            /\ new.owner_id = old.owner_id
            /\ new.created_at = old.created_at
            /\ tasks' \ {new} = tasks \ {old}
            /\ ChangedFields(old, new) \subseteq
                   RequestedFields(last'.req.body) \cup {"updated_at"}
            /\ DOMAIN last'.req.body = {"status"} =>
                   /\ new.is_completed = old.is_completed
                   /\ new.completed_at = old.completed_at]_vars

\* a request that sets only status was accepted on a task that had been
\* completed, and left its completion flag and timestamp
C12_Witness ==
    /\ last.op = "update_task"
    /\ last.outcome = OK
    /\ last.req.body = [status |-> "in_progress"]
    /\ \E t \in tasks :
          /\ t.id = last.req.task_id
          /\ t.status = "in_progress"
          /\ t.is_completed = "True"
          /\ t.completed_at # NullTime
          /\ t.title = <<"b">>

\* C13: a request of a protected operation that is not rejected Unauthorized
\* runs as an account its bearer token was issued to at login.
C13_TokenBoundToAccount ==
    (last.op \in ProtectedOps /\ last.outcome # Unauthorized) =>
        <<last.req.token, last.caller>> \in issued

\* C14: every stored task has a non-empty title, a status of TaskStatus, a
\* priority of TaskPriority and a completion flag that is true or false.
C14_TaskFieldsWellFormed ==
    \A t \in tasks :
        /\ t.title # NoneStr
        /\ Len(t.title) >= 1
        /\ t.status \in TaskStatus
        /\ t.priority \in TaskPriority
        /\ t.is_completed \in {"True", "False"}

\* the task that update_task with body, run from its read to its commit at the
\* instant t on the stored task old, leaves (updated_at aside)
AppliedInOrder(old, body, t) ==
    [f \in DOMAIN old \ {"updated_at"} |->
        IF f = "status" /\ "is_completed" \in DOMAIN body /\ body["is_completed"] = "True"
        THEN "done"
        ELSE IF f = "completed_at" /\ "is_completed" \in DOMAIN body
        THEN (IF body["is_completed"] = "True" THEN t ELSE NullTime)
        ELSE IF f \in DOMAIN body THEN body[f]
        ELSE old[f]]

\* C15: when an update_task commits after another update committed on the task
\* it had read, the stored task is the one that applying the update to the task
\* as the earlier commit left it gives: every field the request sets has the
\* request's value, every other field the value of the earlier commit.
C15_InterleavedAsInCommitOrder ==
    [][(/\ last'.op = "update_task"
        /\ last'.stage = "commit"
        /\ last'.outcome = OK) =>
        \E u \in updates \ updates', old \in tasks, new \in tasks' :
            /\ u.req = last'.req
            /\ old.id = u.loaded.id
            /\ new.id = old.id
            /\ [f \in DOMAIN new \ {"updated_at"} |-> new[f]]
                   = AppliedInOrder(old, u.req.body, now)]_vars

\* the password whose hash an account stores
StoredPassword(u) == u.hashed_password[2]

\* the Credential Policy of passwords
CredentialPolicy(p) ==
    /\ p # NoneStr
    /\ Len(p) >= 8
    /\ Len(p) <= 100
    /\ \E i \in DOMAIN p : p[i] \in UpperLetters
    /\ \E i \in DOMAIN p : p[i] \in LowerLetters
    /\ \E i \in DOMAIN p : p[i] \in Digits
    /\ \E i \in DOMAIN p : p[i] \in PasswordSymbols
    /\ Lower(p) \notin weak_passwords

\* C16: every password whose hash is stored, by registration or by a profile
\* update, satisfies the Credential Policy, and the validator of the profile
\* update accepts no password that the validator of registration rejects.
C16_StoredPasswordsInPolicy ==
    /\ \A u \in users : CredentialPolicy(StoredPassword(u))
    /\ \A p \in PasswordInputs \ {NoneStr} :
          UserUpdate_validate_password(p) # {} => UserCreate_validate_password(p) # {}

\* a profile update stored the hash of a password that is a weak password but
\* for its capital letter and the symbol that follows it
C16_Witness ==
    /\ last.op = "update_current_user"
    /\ last.outcome = OK
    /\ \E u \in users :
          /\ u.id = last.caller
          /\ StoredPassword(u) =
                 <<"P", "a", "s", "s", "w", "o", "r", "d", "1", "2", "3", "!">>

\* C17: a create_task or update_task that carries a title is rejected exactly
\* when the title is empty after trimming; an accepted one stores the words of
\* the title joined by single spaces, whatever whitespace was around and between
\* them, and normalizing the stored title again returns it unchanged.
C17_TitleNormalized ==
    (/\ last.op \in {"create_task", "update_task"}
     /\ last.caller # 0
     /\ "title" \in DOMAIN last.req.body) =>
        LET v == last.req.body["title"] IN
        /\ last.outcome = BadRequest <=> split(v) = << >>
        /\ last.outcome = OK =>
              LET title == last.body[1].title IN
              /\ title = join(<<" ">>, split(v))
              /\ TaskBase_validate_title(title) = {title}
              /\ TaskUpdate_validate_title(title) = {title}

====
